---- MODULE Spec2Model ----
(***************************************************************************)
(* Model of the Move model exporters (src/main.rs, src/basic_full.rs,      *)
(* src/summary.rs).                                                        *)
(*                                                                         *)
(*   Spec     the run of main(): staging, compilation, error check,        *)
(*            serialization and printing, for NumRuns successive runs of   *)
(*            one exporter variant over one filesystem.                    *)
(*   SpecExp  exp_to_json applied to expression trees.                     *)
(*   SpecMod  module_to_json and the document assembly applied to          *)
(*            compiled modules.                                            *)
(***************************************************************************)
EXTENDS Integers, Sequences, FiniteSets, TLC

VARIABLES
    variant,    \* which binary runs: "main", "basic_full" or "summary"
    run,        \* index of the process that is running
    arg,        \* arg[r]: env::args().nth(1) of run r, <<>> = None, <<p>> = Some(p)
    fs,         \* the filesystem: a set of entries [path, kind, content]
    pc,         \* position of the running process in main()
    path,       \* main's local `path`
    tmp,        \* main's local `tmp` (the TempDir), <<>> when not alive
    pkg_root,   \* main's local `pkg_root`
    opts,       \* main's local `opts` (only opts.sources varies)
    cres,       \* cres[r]: what run_move_compiler_to_stderr returned, <<>> = not called
    failed,     \* failed[r]: the fallible call of run r that returned Err/None
    doc,        \* the value being serialized, <<>> before serialization
    stdout,     \* stdout[r]: what run r printed
    result,     \* result[r]: "pending", "Ok" or "Err", what main returned
    e,          \* SpecExp: the expression under conversion
    ej,         \* SpecExp: <<>> or <<exp_to_json(e)>>
    m,          \* SpecMod: the module under conversion
    mj,         \* SpecMod: <<>> or <<module_to_json(m)>>
    menv,       \* SpecMod: the modules of a compiled environment
    mdoc        \* SpecMod: <<>> or <<the assembled document>>

mainVars == <<run, arg, fs, pc, path, tmp, pkg_root, opts, cres, failed, doc, stdout, result>>
expVars  == <<e, ej>>
modVars  == <<m, mj, menv, mdoc>>
vars     == <<variant, mainVars, expVars, modVars>>

\* ------------------------------------------------------------------ bounds

NumRuns   == 2   \* successive runs of the exporter
MaxDepth  == 2   \* nesting depth of the expression trees
MaxDecls  == 2   \* structs (and functions) per module
MaxModules == 2  \* modules per environment

Runs == 1..NumRuns

\* ------------------------------------------------------------------ options

None == <<>>
Some(x) == <<x>>
IsSome(o) == o # <<>>
Unwrap(o) == o[1]

\* ------------------------------------------------------------------ symbols and types

\* The symbol pool: interned symbol -> string.
SymbolPool == <<"M", "N", "Coin", "Box", "value", "flag", "mint", "burn", "x", "amount">>
SymString(sym) == SymbolPool[sym]

\* Types of the compiled model: a primitive type or a tuple of types.
Prim(n)   == [tuple |-> FALSE, name |-> n, elems |-> <<>>]
Tuple(es) == [tuple |-> TRUE, name |-> "", elems |-> es]

RECURSIVE JoinDisplay(_)
\* Type::display: the type rendered as text (a sequence of tokens).
TyDisplay(ty) ==
    IF ty.tuple THEN <<"(">> \o JoinDisplay(ty.elems) \o <<")">> ELSE <<ty.name>>
JoinDisplay(tys) ==
    IF tys = <<>> THEN <<>>
    ELSE IF Len(tys) = 1 THEN TyDisplay(tys[1])
    ELSE TyDisplay(tys[1]) \o <<", ">> \o JoinDisplay(Tail(tys))

\* Type::flatten: a tuple type becomes the list of its elements, any other
\* type the one-element list.
TyFlatten(ty) == IF ty.tuple THEN ty.elems ELSE <<ty>>

\* Decimal rendering of the small numbers of the model.
NumString(n) == <<"0", "1", "2", "3", "4", "5", "6", "7", "8", "9", "10">>[n + 1]

\* ------------------------------------------------------------------ filesystem

Join(p, c) == Append(p, c)
Parent(p) == SubSeq(p, 1, Len(p) - 1)
HasPrefix(p, q) == Len(q) <= Len(p) /\ SubSeq(p, 1, Len(q)) = q

Dir(p) == [path |-> p, kind |-> "dir", content |-> "-"]
File(p, c) == [path |-> p, kind |-> "file", content |-> c]

Exists(f, p) == \E en \in f : en.path = p
\* Path::is_dir
\* (faulty variant: the directory test never succeeds)
IsDirNever(f, p) == FALSE
IsDir(f, p) == \E en \in f : en.path = p /\ en.kind = "dir"
IsFile(f, p) == \E en \in f : en.path = p /\ en.kind = "file"
Content(f, p) == (CHOOSE en \in f : en.path = p).content
\* create or replace the entry at en.path
Put(f, en) == {x \in f : x.path # en.path} \cup {en}
\* fs::create_dir_all
CreateDirAll(f, p) == IF IsDir(f, p) THEN f ELSE Put(f, Dir(p))

\* The names tempfile::tempdir() may pick.
TmpNames == {"tmpA", "tmpB"}
\* The text of the manifest each variant writes.
ManifestText ==
    IF variant = "main" THEN "[package] name = scratch version = 0.0.0"
    ELSE "[package] name=scratch version=0.0.0"

\* The source texts an input file may hold.
Sources == {"one", "two", "bad"}
InFile == <<"in.move">>
PkgDir == <<"pkg">>
NoFile == <<"nofile">>
\* The user's files: a single source file and a directory-form package.
UserFS(srcF, srcG) ==
    { File(InFile, srcF), Dir(PkgDir), File(Join(PkgDir, "Move.toml"), "user manifest"),
      Dir(Join(PkgDir, "sources")),
      File(Join(Join(PkgDir, "sources"), "main.move"), srcG) }
Args == {None, Some(InFile), Some(PkgDir), Some(NoFile)}
\* ------------------------------------------------------------------ expressions

\* move_model::ast::ExpData: kind is the variant, val its scalar payload (the
\* value of a Value, the symbol of a LocalVar, the operation of a Call, 0
\* otherwise) and args its sub-expressions in field order.
Exp(k, v, as) == [kind |-> k, val |-> v, args |-> as]

\* Operation names, as Debug prints them.
OperNames == <<"Add", "Eq">>

RECURSIVE ExpDebug(_)
RECURSIVE ExpsDebug(_)
\* format!("{other:?}") of an expression: its variant name and its content.
ExpDebug(x) == <<x.kind, "(", NumString(x.val)>> \o ExpsDebug(x.args) \o <<")">>
ExpsDebug(xs) == IF xs = <<>> THEN <<>> ELSE ExpDebug(xs[1]) \o ExpsDebug(Tail(xs))

\* struct ExpJson
ExpJson(k, v, cs) == [kind |-> k, value |-> v, children |-> cs]

\* children: vec![exp_to_json(c, env), exp_to_json(t, env), exp_to_json(e2, env)]
\* (faulty variant: the else branch is left out)
IfElseChildrenNoElse(c, t, e2) == <<c, t>>
IfElseChildren(c, t, e2) == <<c, t, e2>>

\* other => ExpJson { kind: format!("Unhandled::{other:?}"), value: None, children: vec![] }
\* (faulty variant: the label lacks the marker)
UnhandledUnmarked(x) == ExpJson(ExpDebug(x), None, <<>>)
Unhandled(x) == ExpJson(<<"Unhandled">> \o ExpDebug(x), None, <<>>)

RECURSIVE exp_to_json(_)
exp_to_json(x) ==
    CASE x.kind = "Value" ->
           ExpJson(<<"Value">>, Some(<<"Number", NumString(x.val)>>), <<>>)
      [] x.kind = "LocalVar" ->
           ExpJson(<<"LocalVar">>, Some(<<SymString(x.val)>>), <<>>)
      [] x.kind = "Call" ->
           ExpJson(<<"Call", OperNames[x.val]>>, None,
                   [i \in 1..Len(x.args) |-> exp_to_json(x.args[i])])
      [] x.kind = "Block" ->
           ExpJson(<<"Block">>, None, <<exp_to_json(x.args[1])>>)
      [] x.kind = "Loop" ->
           ExpJson(<<"Loop">>, None, <<exp_to_json(x.args[1])>>)
      [] x.kind = "Assign" ->
           ExpJson(<<"Assign">>, None, <<exp_to_json(x.args[1])>>)
      [] x.kind = "Return" ->
           ExpJson(<<"Return">>, None, <<exp_to_json(x.args[1])>>)
      [] x.kind = "IfElse" ->
           ExpJson(<<"IfElse">>, None,
                   IfElseChildren(exp_to_json(x.args[1]), exp_to_json(x.args[2]),
                                  exp_to_json(x.args[3])))
      [] OTHER -> Unhandled(x)
\* ------------------------------------------------------------------ compiled model

\* Symbol of a name: its index in SymbolPool.
Sym(n) == CHOOSE i \in 1..Len(SymbolPool) : SymbolPool[i] = n

Attr(n, v) == [name |-> n, val |-> v]
Field(n, t, off) == [name |-> n, ty |-> t, offset |-> off, variant |-> None]

StructCoin ==
    [name |-> Sym("Coin"), abilities |-> {"Key", "Store"}, type_params |-> <<>>,
     fields |-> <<Field(Sym("value"), Prim("u64"), 0), Field(Sym("flag"), Prim("bool"), 1)>>,
     is_native |-> FALSE, is_ghost_memory |-> FALSE, attrs |-> <<>>]
StructBox ==
    [name |-> Sym("Box"), abilities |-> {"Drop", "Copy"}, type_params |-> <<Sym("x")>>,
     fields |-> <<Field(Sym("value"), Prim("address"), 0)>>,
     is_native |-> FALSE, is_ghost_memory |-> FALSE, attrs |-> <<Attr(Sym("flag"), 1)>>]

\* if (x == 1) { return 1 } else { <sequence> } inside a block
BodyMint ==
    Exp("Block", 0,
        <<Exp("IfElse", 0,
              << Exp("Call", 2, <<Exp("LocalVar", Sym("x"), <<>>), Exp("Value", 1, <<>>)>>),
                 Exp("Return", 0, <<Exp("Value", 1, <<>>)>>),
                 Exp("Sequence", 0, <<Exp("Value", 2, <<>>)>>) >>)>>)

FunMint ==
    [name |-> Sym("mint"), visibility |-> "Public", kind |-> "Regular", type_params |-> <<>>,
     params |-> <<[name |-> Sym("amount"), ty |-> Prim("u64")]>>,
     result_type |-> Tuple(<<>>), is_native |-> FALSE, is_intrinsic |-> FALSE,
     is_entry |-> TRUE, attrs |-> <<Attr(Sym("flag"), 2)>>, def |-> Some(BodyMint)]
FunBurn ==
    [name |-> Sym("burn"), visibility |-> "Private", kind |-> "Regular",
     type_params |-> <<Sym("x")>>,
     params |-> <<[name |-> Sym("x"), ty |-> Prim("u64")], [name |-> Sym("amount"), ty |-> Prim("bool")]>>,
     result_type |-> Tuple(<<Prim("u64"), Prim("bool")>>), is_native |-> TRUE,
     is_intrinsic |-> FALSE, is_entry |-> FALSE, attrs |-> <<>>, def |-> None]

Module(n, ss, fns) ==
    [name |-> n, addr |-> "0x1", is_script |-> FALSE, structs |-> ss, functions |-> fns,
     attrs |-> <<Attr(Sym("flag"), 3)>>]
ModM == Module(Sym("M"), <<StructCoin, StructBox>>, <<FunMint, FunBurn>>)
ModN == Module(Sym("N"), <<StructBox>>, <<FunBurn>>)

\* What the compiler hands back: the modules and the error indicator.
Env(ms, errs) == [modules |-> ms, has_errors |-> errs]

\* ------------------------------------------------------------------ src/main.rs

attrs_to_json(attrs) ==
    [i \in 1..Len(attrs) |->
        [name |-> SymString(attrs[i].name),
         value |-> <<"Attribute", SymString(attrs[i].name), NumString(attrs[i].val)>>]]

main_struct_to_json(s) ==
    [name |-> SymString(s.name),
     fields |-> [i \in 1..Len(s.fields) |->
                   <<SymString(s.fields[i].name), ": ">> \o TyDisplay(s.fields[i].ty)],
     attrs |-> attrs_to_json(s.attrs)]

main_function_to_json(f) ==
    [name |-> SymString(f.name),
     params |-> [i \in 1..Len(f.params) |->
                   <<SymString(f.params[i].name), ": ">> \o TyDisplay(f.params[i].ty)],
     ret |-> TyDisplay(f.result_type),
     attrs |-> attrs_to_json(f.attrs),
     body |-> IF IsSome(f.def) THEN Some(exp_to_json(Unwrap(f.def))) ELSE None]

\* ModuleEnv::get_structs / get_functions: the iteration order of the module's
\* declarations.
get_structs(md) == md.structs
get_functions(md) == md.functions

\* (faulty variant: functions without a body are skipped)
main_module_to_json_bodies_only(md) ==
    [name |-> <<md.addr, "::", SymString(md.name)>>,
     structs |-> [i \in 1..Len(get_structs(md)) |-> main_struct_to_json(get_structs(md)[i])],
     functions |->
        LET withBody == SelectSeq(get_functions(md), LAMBDA f : IsSome(f.def))
        IN  [i \in 1..Len(withBody) |-> main_function_to_json(withBody[i])],
     attrs |-> attrs_to_json(md.attrs)]
main_module_to_json(md) ==
    [name |-> <<md.addr, "::", SymString(md.name)>>,
     structs |-> [i \in 1..Len(get_structs(md)) |-> main_struct_to_json(get_structs(md)[i])],
     functions |-> [i \in 1..Len(get_functions(md)) |->
                      main_function_to_json(get_functions(md)[i])],
     attrs |-> attrs_to_json(md.attrs)]

\* ------------------------------------------------------------------ src/basic_full.rs

\* AbilitySet iterates in this fixed order.
AbilityOrder == <<"Copy", "Drop", "Store", "Key">>

field_to_json(f) ==
    [name |-> SymString(f.name), ty |-> TyDisplay(f.ty), offset |-> f.offset,
     variant |-> IF IsSome(f.variant) THEN Some(SymString(Unwrap(f.variant))) ELSE None]

full_struct_to_json(s) ==
    [name |-> SymString(s.name),
     abilities |-> SelectSeq(AbilityOrder, LAMBDA a : a \in s.abilities),
     type_params |-> [i \in 1..Len(s.type_params) |-> SymString(s.type_params[i])],
     fields |-> [i \in 1..Len(s.fields) |-> field_to_json(s.fields[i])],
     is_native |-> s.is_native,
     is_ghost_memory |-> s.is_ghost_memory]

full_function_to_json(f) ==
    [name |-> SymString(f.name),
     visibility |-> f.visibility,
     kind |-> f.kind,
     type_params |-> [i \in 1..Len(f.type_params) |-> SymString(f.type_params[i])],
     parameters |-> [i \in 1..Len(f.params) |->
                       [name |-> SymString(f.params[i].name),
                        ty |-> TyDisplay(f.params[i].ty)]],
     results |-> [i \in 1..Len(TyFlatten(f.result_type)) |->
                    TyDisplay(TyFlatten(f.result_type)[i])],
     is_native |-> f.is_native,
     is_intrinsic |-> f.is_intrinsic,
     is_entry |-> f.is_entry]

full_module_to_json(md) ==
    [name |-> SymString(md.name),
     address |-> md.addr,
     is_script |-> md.is_script,
     structs |-> [i \in 1..Len(get_structs(md)) |-> full_struct_to_json(get_structs(md)[i])],
     functions |-> [i \in 1..Len(get_functions(md)) |->
                      full_function_to_json(get_functions(md)[i])]]

\* ------------------------------------------------------------------ documents

\* GlobalEnv::get_modules: the iteration orders of the environment's modules
\* (a vector: the one order of the environment).
\* (faulty variant: the modules come in an arbitrary order, as from a hash map)
get_modules_any_order(en) ==
    {[i \in 1..Len(en.modules) |-> en.modules[p[i]]] : p \in Permutations(1..Len(en.modules))}
get_modules(en) == {en.modules}

\* main.rs: PackageJson { modules: ... }
PackageJson(ms) == [modules |-> [i \in 1..Len(ms) |-> main_module_to_json(ms[i])]]
\* basic_full.rs
build_ast(ms) == [modules |-> [i \in 1..Len(ms) |-> full_module_to_json(ms[i])]]

RECURSIVE SumLen(_, _)
SumLen(ms, which) ==
    IF ms = <<>> THEN 0
    ELSE (IF which = "structs" THEN Len(ms[1].structs) ELSE Len(ms[1].functions))
         + SumLen(Tail(ms), which)
\* summary.rs
summarize(ms, ms2) ==
    [modules |-> [i \in 1..Len(ms) |-> <<ms[i].addr, "::", SymString(ms[i].name)>>],
     stats |-> [structs |-> SumLen(ms2, "structs"), functions |-> SumLen(ms2, "functions")]]

\* The document variant v builds; ms is what get_modules yields, ms2 what the
\* second traversal of summarize yields.
Export(v, ms, ms2) ==
    CASE v = "main" -> PackageJson(ms)
      [] v = "basic_full" -> build_ast(ms)
      [] OTHER -> summarize(ms, ms2)

\* serde_json::to_string_pretty followed by println!: the text on standard output.
ToStringPretty(d) == <<"json", d, "\n">>
\* ------------------------------------------------------------------ the compiler

\* The environment the front end builds from a source text.
CompileSource(src) ==
    CASE src = "one" -> Env(<<ModM>>, FALSE)
      [] src = "two" -> Env(<<ModM, ModN>>, FALSE)
      [] src = "bad" -> Env(<<ModN>>, TRUE)
      [] OTHER -> Env(<<>>, TRUE)

\* run_move_compiler_to_stderr(opts): the results the call may return, given
\* the filesystem it reads. It reads the source files under opts.sources; with
\* nothing to read, or a source in error, it returns Err or an environment
\* that has errors.
RunCompiler(f, o) ==
    LET src == o.sources[1]
        files == {en \in f : en.kind = "file" /\ Parent(en.path) = src}
        env == IF IsDir(f, src) /\ files # {}
               THEN CompileSource((CHOOSE en \in files : TRUE).content)
               ELSE Env(<<>>, TRUE)
    IN  IF env.has_errors
        THEN {[ok |-> FALSE, env |-> Env(<<>>, TRUE)], [ok |-> TRUE, env |-> env]}
        ELSE {[ok |-> TRUE, env |-> env]}

\* ------------------------------------------------------------------ main()

Variants == {"main", "basic_full", "summary"}
NoTmp == <<>>
NoPath == <<>>
DefaultOpts == [sources |-> <<>>, named_address_mapping |-> <<>>, dependencies |-> <<>>]

\* Drop of the TempDir at path t: the directory and all below it are removed.
\* (faulty variant: the directory is kept)
DropTempDirLeak(f, t) == f
DropTempDir(f, t) == IF t = NoTmp THEN f ELSE {en \in f : ~HasPrefix(en.path, t)}

\* The `?` operator: go on with an Ok value, return the Err from main.
\* (faulty variant: the Err is ignored)
QuestionIgnore(ok, next) == [pc |-> next, ret |-> "pending"]
Question(ok, next) ==
    IF ok THEN [pc |-> next, ret |-> "pending"] ELSE [pc |-> "done", ret |-> "Err"]

\* if cond { bail!(..) }
\* (faulty variant: the error indicator is not acted on)
BailNever(cond, next) == [pc |-> next, ret |-> "pending"]
Bail(cond, next) ==
    IF cond THEN [pc |-> "done", ret |-> "Err"] ELSE [pc |-> next, ret |-> "pending"]

\* A fallible call followed by `?`: `after` is the filesystem the call leaves;
\* on the early return the locals of main are dropped.
Fallible(ok, next, step, after) ==
    LET q == Question(ok, next) IN
    /\ pc' = q.pc
    /\ result' = [result EXCEPT ![run] = q.ret]
    /\ failed' = IF ok THEN failed ELSE [failed EXCEPT ![run] = step]
    /\ fs' = IF q.pc = "done" THEN DropTempDir(after, tmp) ELSE after

InitMain ==
    /\ variant \in Variants
    /\ run = 1
    /\ arg \in [Runs -> Args]
    /\ \E srcF \in Sources, srcG \in Sources : fs = UserFS(srcF, srcG)
    /\ pc = "start"
    /\ path = NoPath
    /\ tmp = NoTmp
    /\ pkg_root = NoPath
    /\ opts = DefaultOpts
    /\ cres = [r \in Runs |-> None]
    /\ failed = [r \in Runs |-> "none"]
    /\ doc = None
    /\ stdout = [r \in Runs |-> <<>>]
    /\ result = [r \in Runs |-> "pending"]

\* let arg = env::args().nth(1).context(..)?; let path = PathBuf::from(arg);
ParseArg ==
    /\ pc = "start"
    /\ Fallible(IsSome(arg[run]), "is_dir", "arg", fs)
    /\ path' = IF IsSome(arg[run]) THEN Unwrap(arg[run]) ELSE path
    /\ UNCHANGED <<variant, run, arg, tmp, pkg_root, opts, cres, doc, stdout,
                 expVars, modVars>>

\* if path.is_dir() { path } else { ...
CheckIsDir ==
    /\ pc = "is_dir"
    /\ IF IsDir(fs, path)
       THEN pkg_root' = path /\ pc' = "opts"
       ELSE pkg_root' = pkg_root /\ pc' = "tempdir"
    /\ UNCHANGED <<variant, run, arg, fs, path, tmp, opts, cres, failed, doc, stdout, result,
                 expVars, modVars>>

\* let tmp = tempfile::tempdir().context("create temp package")?;
CreateTempDir ==
    /\ pc = "tempdir"
    /\ \E ok \in BOOLEAN, n \in TmpNames :
         /\ ~Exists(fs, <<n>>)
         /\ Fallible(ok, "write", "tempdir", IF ok THEN Put(fs, Dir(<<n>>)) ELSE fs)
         /\ tmp' = IF ok THEN <<n>> ELSE tmp
    /\ UNCHANGED <<variant, run, arg, path, pkg_root, opts, cres, doc, stdout,
                 expVars, modVars>>

\* fs::write(root.join("Move.toml"), ..)?;
WriteManifest ==
    /\ pc = "write"
    /\ LET target == Join(tmp, "Move.toml") IN
       \E ok \in (IF IsDir(fs, tmp) THEN BOOLEAN ELSE {FALSE}), partial \in BOOLEAN :
         Fallible(ok, "mkdir", "write",
                  IF ok THEN Put(fs, File(target, ManifestText))
                  ELSE IF partial /\ IsDir(fs, tmp) THEN Put(fs, File(target, "partial"))
                  ELSE fs)
    /\ tmp' = IF pc' = "done" THEN NoTmp ELSE tmp
    /\ UNCHANGED <<variant, run, arg, path, pkg_root, opts, cres, doc, stdout,
                 expVars, modVars>>

\* let src_dir = root.join("sources"); fs::create_dir_all(&src_dir)?;
CreateSourcesDir ==
    /\ pc = "mkdir"
    /\ \E ok \in BOOLEAN :
         Fallible(ok, "copy", "mkdir",
                  IF ok THEN CreateDirAll(fs, Join(tmp, "sources")) ELSE fs)
    /\ tmp' = IF pc' = "done" THEN NoTmp ELSE tmp
    /\ UNCHANGED <<variant, run, arg, path, pkg_root, opts, cres, doc, stdout,
                 expVars, modVars>>

\* fs::copy(&path, src_dir.join("main.move"))?;
CopyInput ==
    /\ pc = "copy"
    /\ LET src_dir == Join(tmp, "sources")
           dest == Join(src_dir, "main.move")
       IN \E ok \in (IF IsFile(fs, path) /\ IsDir(fs, src_dir) THEN BOOLEAN ELSE {FALSE}),
             partial \in BOOLEAN :
            Fallible(ok, "root", "copy",
                     IF ok THEN Put(fs, File(dest, Content(fs, path)))
                     ELSE IF partial /\ IsDir(fs, src_dir)
                          THEN Put(fs, File(dest, "partial"))
                     ELSE fs)
    /\ tmp' = IF pc' = "done" THEN NoTmp ELSE tmp
    /\ UNCHANGED <<variant, run, arg, path, pkg_root, opts, cres, doc, stdout,
                 expVars, modVars>>

\* root.to_path_buf() }: the value of the else block; `tmp`, declared in the
\* block, goes out of scope here and is dropped.
LeaveElseBlock ==
    /\ pc = "root"
    /\ pkg_root' = tmp
    /\ fs' = DropTempDir(fs, tmp)
    /\ tmp' = NoTmp
    /\ pc' = "opts"
    /\ UNCHANGED <<variant, run, arg, path, opts, cres, failed, doc, stdout, result,
                 expVars, modVars>>

\* let mut opts = CompilerOptions::default(); opts.sources = ..; ..
BuildOptions ==
    /\ pc = "opts"
    /\ opts' = [sources |-> <<Join(pkg_root, "sources")>>,
                named_address_mapping |-> <<"BasicCoin=0x1", "std=0x1">>,
                dependencies |-> <<"../aptos-core/third_party/move/move-stdlib/sources">>]
    /\ pc' = "compile"
    /\ UNCHANGED <<variant, run, arg, fs, path, tmp, pkg_root, cres, failed, doc, stdout, result,
                 expVars, modVars>>

\* let (env, _units) = run_move_compiler_to_stderr(opts)?;
Compile ==
    /\ pc = "compile"
    /\ \E out \in RunCompiler(fs, opts) :
         /\ cres' = [cres EXCEPT ![run] = Some(out)]
         /\ Fallible(out.ok, "has_errors", "compile", fs)
    /\ UNCHANGED <<variant, run, arg, path, tmp, pkg_root, opts, doc, stdout,
                 expVars, modVars>>

\* if env.has_errors() { bail!("Compilation failed"); }
CheckErrors ==
    /\ pc = "has_errors"
    /\ LET errs == Unwrap(cres[run]).env.has_errors
           b == Bail(errs, "serialize")
       IN /\ pc' = b.pc
          /\ result' = [result EXCEPT ![run] = b.ret]
          /\ failed' = IF errs THEN [failed EXCEPT ![run] = "errors"] ELSE failed
    /\ UNCHANGED <<variant, run, arg, fs, path, tmp, pkg_root, opts, cres, doc, stdout,
                 expVars, modVars>>

\* PackageJson { modules: env.get_modules().map(..).collect() } / build_ast(&env)
\* / summarize(&env)
Serialize ==
    /\ pc = "serialize"
    /\ \E ms \in get_modules(Unwrap(cres[run]).env),
          ms2 \in get_modules(Unwrap(cres[run]).env) :
         doc' = Some(Export(variant, ms, ms2))
    /\ pc' = "print"
    /\ UNCHANGED <<variant, run, arg, fs, path, tmp, pkg_root, opts, cres, failed, stdout, result,
                 expVars, modVars>>

\* println!("{}", serde_json::to_string_pretty(..)?); Ok(())
PrintJson ==
    /\ pc = "print"
    /\ stdout' = [stdout EXCEPT ![run] = Append(@, ToStringPretty(Unwrap(doc)))]
    /\ pc' = "done"
    /\ result' = [result EXCEPT ![run] = "Ok"]
    /\ UNCHANGED <<variant, run, arg, fs, path, tmp, pkg_root, opts, cres, failed, doc,
                 expVars, modVars>>

\* The process has exited; the next one starts at the top of main.
NextRun ==
    /\ pc = "done"
    /\ run < NumRuns
    /\ run' = run + 1
    /\ pc' = "start"
    /\ path' = NoPath
    /\ tmp' = NoTmp
    /\ pkg_root' = NoPath
    /\ opts' = DefaultOpts
    /\ doc' = None
    /\ UNCHANGED <<variant, arg, fs, cres, failed, stdout, result,
                 expVars, modVars>>

InitExpIdle == e = Exp("Invalid", 0, <<>>) /\ ej = None
InitModIdle == m = ModN /\ mj = None /\ menv = <<>> /\ mdoc = None
\* No process runs.
InitMainIdle ==
    /\ run = 1
    /\ arg = [r \in Runs |-> None]
    /\ fs = UserFS("one", "one")
    /\ pc = "done"
    /\ path = NoPath
    /\ tmp = NoTmp
    /\ pkg_root = NoPath
    /\ opts = DefaultOpts
    /\ cres = [r \in Runs |-> None]
    /\ failed = [r \in Runs |-> "none"]
    /\ doc = None
    /\ stdout = [r \in Runs |-> <<>>]
    /\ result = [r \in Runs |-> "pending"]

Init == InitMain /\ InitExpIdle /\ InitModIdle

Next ==
    \/ ParseArg
    \/ CheckIsDir
    \/ CreateTempDir
    \/ WriteManifest
    \/ CreateSourcesDir
    \/ CopyInput
    \/ LeaveElseBlock
    \/ BuildOptions
    \/ Compile
    \/ CheckErrors
    \/ Serialize
    \/ PrintJson
    \/ NextRun

Spec == Init /\ [][Next]_vars

\* ------------------------------------------------------------------ properties of main()

FileMode(r) == arg[r] \in {Some(InFile), Some(NoFile)}
DirMode(r) == arg[r] = Some(PkgDir)
Terminated(r) == r < run \/ (r = run /\ pc = "done")
CompileFailed(r) ==
    IsSome(cres[r]) /\ (~Unwrap(cres[r]).ok \/ Unwrap(cres[r]).env.has_errors)
StagingDirs(f) == {en \in f : en.path[1] \in TmpNames}

\* C1: when the compiler returns Err or an environment that has errors, the run
\* prints nothing and ends in failure, and serialization only ever starts on an
\* environment that was returned Ok and checked free of errors.
C1_CompileErrorIsFatal ==
    \A r \in Runs :
      /\ CompileFailed(r) =>
           /\ stdout[r] = <<>>
           /\ Terminated(r) => result[r] = "Err"
           /\ r = run => pc \in {"has_errors", "done"} /\ doc = None
           /\ (r = run /\ ~Unwrap(cres[r]).ok) => pc = "done"
      /\ ((r = run /\ (pc \in {"serialize", "print"} \/ doc # None)) \/ stdout[r] # <<>>) =>
           /\ IsSome(cres[r])
           /\ Unwrap(cres[r]).ok
           /\ ~Unwrap(cres[r]).env.has_errors

C1_Witness ==
    /\ run = NumRuns
    /\ pc = "done"
    /\ IsSome(cres[1]) /\ ~Unwrap(cres[1]).ok /\ result[1] = "Err"
    /\ IsSome(cres[run]) /\ Unwrap(cres[run]).ok /\ Unwrap(cres[run]).env.has_errors
    /\ result[run] = "Err"

\* C3: with a single file as input, the staging directory, its Move.toml and
\* its sources/main.move exist when the compiler is invoked on <root>/sources.
C3_StagedPackageExistsAtCompile ==
    (pc = "compile" /\ FileMode(run)) =>
        /\ opts.sources = <<Join(pkg_root, "sources")>>
        /\ IsDir(fs, pkg_root)
        /\ IsFile(fs, Join(pkg_root, "Move.toml"))
        /\ IsDir(fs, Join(pkg_root, "sources"))
        /\ IsFile(fs, Join(Join(pkg_root, "sources"), "main.move"))

\* C4: a run on a single source file and a run on a directory package holding
\* only that file both succeed and print the same JSON.
C4_FileAndDirAgree ==
    \A r1 \in Runs, r2 \in Runs :
      ( /\ Terminated(r1) /\ Terminated(r2)
        /\ arg[r1] = Some(InFile) /\ arg[r2] = Some(PkgDir)
        /\ Content(fs, InFile) = Content(fs, Join(Join(PkgDir, "sources"), "main.move"))
        /\ ~CompileSource(Content(fs, InFile)).has_errors )
      => /\ result[r1] = "Ok" /\ result[r2] = "Ok"
         /\ stdout[r1] = stdout[r2]

\* C5: once a run has terminated, on whatever exit path, no staging directory
\* (nor anything below one) is left on the filesystem.
C5_NoStagingDirAtExit ==
    pc = "done" => StagingDirs(fs) = {}

C5_Witness ==
    /\ run = NumRuns
    /\ pc = "done"
    /\ FileMode(1) /\ failed[1] = "copy"
    /\ FileMode(run) /\ failed[run] \in {"compile", "errors"}
    /\ StagingDirs(fs) = {}

C9_StagingFailureIsFatal ==
    \A r \in Runs :
      failed[r] \in {"arg", "tempdir", "write", "mkdir", "copy"} =>
        /\ r = run => pc = "done"
        /\ result[r] = "Err"
        /\ cres[r] = None
        /\ stdout[r] = <<>>

C9_Witness ==
    /\ run = NumRuns
    /\ pc = "done"
    /\ failed[1] = "arg"
    /\ failed[run] \in {"write", "mkdir", "copy"}
    /\ cres[run] = None /\ result[run] = "Err"

\* C10: with a directory as input the package root is the given path, no
\* staging directory is made, the compiler's one source root is <path>/sources
\* and no step of the run changes the filesystem.
C10_DirPassThrough ==
    /\ [](DirMode(run) /\ pc \in {"opts", "compile", "has_errors", "serialize", "print", "done"}
            => /\ pkg_root = Unwrap(arg[run])
               /\ tmp = NoTmp
               /\ StagingDirs(fs) = {}
               /\ pc # "opts" => opts.sources = <<Join(Unwrap(arg[run]), "sources")>>)
    /\ [][DirMode(run) => fs' = fs]_vars

C10_Witness ==
    /\ DirMode(run) /\ pc = "done" /\ result[run] = "Ok"
    /\ opts.sources = <<Join(PkgDir, "sources")>>
\* ------------------------------------------------------------------ SpecExp: exp_to_json

\* The variants exp_to_json has an arm for.
HandledKinds == {"Value", "LocalVar", "Call", "Block", "Loop", "Assign", "Return", "IfElse"}
UnaryKinds == {"Block", "Loop", "Assign", "Return"}

\* Expressions without sub-expressions: handled and unhandled ones.
LeafExps ==
    { Exp("Value", 1, <<>>), Exp("LocalVar", Sym("x"), <<>>), Exp("Invalid", 0, <<>>),
      Exp("Temporary", 0, <<>>), Exp("LoopCont", 0, <<>>) }
\* The leaves put next to a sub-expression when a node is built around it.
SiblingExps == { Exp("Value", 2, <<>>), Exp("Temporary", 0, <<>>) }

Max(a, b) == IF a >= b THEN a ELSE b
RECURSIVE Depth(_)
RECURSIVE MaxDepthOf(_)
Depth(x) == IF x.args = <<>> THEN 0 ELSE 1 + MaxDepthOf(x.args)
MaxDepthOf(xs) == IF xs = <<>> THEN 0 ELSE Max(Depth(xs[1]), MaxDepthOf(Tail(xs)))

InitExp ==
    /\ variant = "main"
    /\ InitMainIdle
    /\ InitModIdle
    /\ e \in LeafExps
    /\ ej = None

\* Block / Loop / Assign / Return around e
WrapUnary ==
    /\ ej = None /\ Depth(e) < MaxDepth
    /\ \E k \in UnaryKinds : e' = Exp(k, 0, <<e>>)
    /\ UNCHANGED <<variant, mainVars, modVars, ej>>

\* IfElse with e as condition, then-branch or else-branch
WrapIfElse ==
    /\ ej = None /\ Depth(e) < MaxDepth
    /\ \E a \in SiblingExps, b \in SiblingExps :
         e' \in {Exp("IfElse", 0, <<e, a, b>>), Exp("IfElse", 0, <<a, e, b>>),
                 Exp("IfElse", 0, <<a, b, e>>)}
    /\ UNCHANGED <<variant, mainVars, modVars, ej>>

\* Call with zero, one or two arguments
WrapCall ==
    /\ ej = None /\ Depth(e) < MaxDepth
    /\ \E op \in 1..Len(OperNames), a \in SiblingExps :
         e' \in {Exp("Call", op, <<>>), Exp("Call", op, <<e>>), Exp("Call", op, <<e, a>>),
                 Exp("Call", op, <<a, e>>)}
    /\ UNCHANGED <<variant, mainVars, modVars, ej>>

\* A variant exp_to_json has no arm for, with e inside
WrapOther ==
    /\ ej = None /\ Depth(e) < MaxDepth
    /\ \E a \in SiblingExps :
         e' \in {Exp("Sequence", 0, <<e>>), Exp("Sequence", 0, <<e, a>>),
                 Exp("Mutate", 0, <<a, e>>), Exp("Lambda", 0, <<e>>)}
    /\ UNCHANGED <<variant, mainVars, modVars, ej>>

ConvertExp ==
    /\ ej = None
    /\ ej' = Some(exp_to_json(e))
    /\ UNCHANGED <<variant, mainVars, modVars, e>>

NextExp == WrapUnary \/ WrapIfElse \/ WrapCall \/ WrapOther \/ ConvertExp

SpecExp == InitExp /\ [][NextExp]_vars

IsExpJson(j) == DOMAIN j = {"kind", "value", "children"}

RECURSIVE FallbackOK(_, _)
\* j encodes x: a node for every expression, the traversal going on below
\* every handled node, and an unhandled node encoded as the fallback leaf.
FallbackOK(x, j) ==
    /\ IsExpJson(j)
    /\ IF x.kind \in HandledKinds
       THEN /\ j.kind[1] # "Unhandled"
            /\ Len(j.children) = Len(x.args)
            /\ \A i \in 1..Len(x.args) : FallbackOK(x.args[i], j.children[i])
       ELSE /\ j.kind[1] = "Unhandled"
            /\ j.value = None
            /\ j.children = <<>>

RECURSIVE HasKind(_, _)
HasKind(x, ks) == x.kind \in ks \/ \E i \in 1..Len(x.args) : HasKind(x.args[i], ks)

\* C2: exp_to_json returns a node for every expression tree, and a node of a
\* kind outside the handled set is a leaf labelled Unhandled, with no value and
\* no children.
C2_ExpToJsonTotal ==
    ej # None => FallbackOK(e, Unwrap(ej))

C2_Witness ==
    /\ ej # None
    /\ e.kind = "IfElse"
    /\ e.args[3].kind = "Sequence" /\ e.args[3].args # <<>>
    /\ Unwrap(ej).children[3].kind[1] = "Unhandled"
    /\ Unwrap(ej).children[3].children = <<>>

RECURSIVE OutArity(_)
\* every structural node of the output has the arity of its construct
OutArity(j) ==
    /\ j.kind = <<"IfElse">> => Len(j.children) = 3
    /\ (j.kind \in {<<k>> : k \in UnaryKinds}) => Len(j.children) = 1
    /\ \A i \in 1..Len(j.children) : OutArity(j.children[i])

RECURSIVE ChildrenInOrder(_, _)
\* below every structural node of x, the children of its encoding are the
\* encodings of its sub-expressions, in field order
ChildrenInOrder(x, j) ==
    /\ x.kind \in UnaryKinds \cup {"IfElse"} =>
         /\ j.kind = <<x.kind>>
         /\ Len(j.children) = (IF x.kind = "IfElse" THEN 3 ELSE 1)
         /\ \A i \in 1..Len(j.children) : j.children[i] = exp_to_json(x.args[i])
    /\ x.kind \in HandledKinds =>
         /\ Len(j.children) <= Len(x.args)
         /\ \A i \in 1..Len(j.children) : ChildrenInOrder(x.args[i], j.children[i])

\* C7: at every depth, an IfElse node has exactly the three children condition,
\* then, else in that order, and Block, Loop, Assign and Return nodes exactly
\* one child.
C7_StructuralArity ==
    ej # None => OutArity(Unwrap(ej)) /\ ChildrenInOrder(e, Unwrap(ej))

C7_Witness ==
    /\ ej # None
    /\ e.kind \in UnaryKinds
    /\ e.args[1].kind = "IfElse"
    /\ Len(Unwrap(ej).children) = 1
    /\ Unwrap(ej).children[1].kind = <<"IfElse">>
    /\ Len(Unwrap(ej).children[1].children) = 3

\* ------------------------------------------------------------------ SpecMod: module_to_json

RECURSIVE SeqsUpTo(_, _)
\* the sequences over S of length at most n
SeqsUpTo(S, n) ==
    IF n = 0 THEN {<<>>}
    ELSE LET shorter == SeqsUpTo(S, n - 1)
         IN  shorter \cup {Append(t, x) : t \in shorter, x \in S}

InitMod ==
    /\ variant \in Variants
    /\ InitMainIdle
    /\ InitExpIdle
    /\ \E ss \in SeqsUpTo({StructCoin, StructBox}, MaxDecls),
          fns \in SeqsUpTo({FunMint, FunBurn}, MaxDecls) :
         m = Module(Sym("M"), ss, fns)
    /\ mj = None
    /\ menv \in SeqsUpTo({ModM, ModN}, MaxModules)
    /\ mdoc = None

\* module_to_json of the running variant (summary.rs has none)
ConvertModule ==
    /\ mj = None
    /\ variant \in {"main", "basic_full"}
    /\ mj' = Some(IF variant = "main" THEN main_module_to_json(m) ELSE full_module_to_json(m))
    /\ UNCHANGED <<variant, mainVars, expVars, m, menv, mdoc>>

\* the document of the running variant over the environment's modules
AssembleDocument ==
    /\ mdoc = None
    /\ \E ms \in get_modules(Env(menv, FALSE)), ms2 \in get_modules(Env(menv, FALSE)) :
         mdoc' = Some(Export(variant, ms, ms2))
    /\ UNCHANGED <<variant, mainVars, expVars, m, mj, menv>>

NextMod == ConvertModule \/ AssembleDocument

SpecMod == InitMod /\ [][NextMod]_vars

StructEntry(v, st) == IF v = "main" THEN main_struct_to_json(st) ELSE full_struct_to_json(st)
FunctionEntry(v, f) == IF v = "main" THEN main_function_to_json(f) ELSE full_function_to_json(f)
ModuleEntry(v, md) ==
    CASE v = "main" -> main_module_to_json(md)
      [] v = "basic_full" -> full_module_to_json(md)
      [] OTHER -> <<md.addr, "::", SymString(md.name)>>

\* C6: the module record lists one entry per struct and per function of the
\* module, the i-th entry converting the i-th declaration, and the document
\* lists one entry per module in environment order.
C6_ListsPreserved ==
    /\ mj # None =>
         LET j == Unwrap(mj) IN
         /\ Len(j.structs) = Len(m.structs)
         /\ Len(j.functions) = Len(m.functions)
         /\ \A i \in 1..Len(m.structs) : j.structs[i] = StructEntry(variant, m.structs[i])
         /\ \A i \in 1..Len(m.functions) :
              j.functions[i] = FunctionEntry(variant, m.functions[i])
    /\ mdoc # None =>
         LET d == Unwrap(mdoc) IN
         /\ Len(d.modules) = Len(menv)
         /\ \A i \in 1..Len(menv) : d.modules[i] = ModuleEntry(variant, menv[i])

C6_Witness ==
    /\ mj # None /\ mdoc # None
    /\ variant = "main"
    /\ m.structs = <<StructBox, StructCoin>>
    /\ m.functions = <<FunBurn, FunMint>>
    /\ Len(Unwrap(mj).functions) = MaxDecls
    /\ menv = <<ModN, ModM>>
====
